---- MODULE Spec2Model ----
(***************************************************************************)
(* Model of setup-ffmpeg.js: the FFmpeg setup script of the YouTube        *)
(* downloader.  One Node.js process runs main(): availability probe,       *)
(* local-cache probe, confirmation gate, download, extraction + search,    *)
(* guidance, final exit pause.  The filesystem (the temporary archive and  *)
(* the install root) survives from one run of the script to the next.      *)
(*                                                                         *)
(* Granularity: one action per event-loop callback together with the       *)
(* synchronous code and promise continuations it triggers, except that a   *)
(* settled download promise and the continuation of main() that awaits it  *)
(* are two steps, because the thread pool executes fs.open, fs.close and   *)
(* fs.unlink in parallel with the JavaScript thread.                       *)
(***************************************************************************)
EXTENDS Integers, Sequences, FiniteSets, TLC

\* ---------------------------------------------------------------- bounds
MaxRuns == 2         \* runs of the script over the same filesystem
MaxEntries == 2      \* entries of a downloaded archive
MaxDepth == 2        \* nesting depth of an archive entry
MaxPending == 1      \* unread input chunks buffered on stdin

\* --------------------------------------------------------- configuration
ffmpegDir == <<"ffmpeg">>
downloadPath == <<"ffmpeg-download.zip">>

\* The entry names the code tells apart, in the order readdirSync lists them.
NameOrder == <<"bin", "ffmpeg.exe">>
Names == {NameOrder[i] : i \in 1..Len(NameOrder)}

\* HTTP status codes the server may answer with.
StatusCodes == {200, 302, 404}

\* JavaScript null, as returned by findFfmpegExePath (no path is empty).
null == <<>>

\* ------------------------------------------------------------ path module
join(dir, item) == Append(dir, item)
dirname(p) == SubSeq(p, 1, Len(p) - 1)

IsPrefix(p, q) == Len(p) <= Len(q) /\ SubSeq(q, 1, Len(p)) = p

\* ------------------------------------------------------------- filesystem
\* A tree is a set of entries [p |-> path, d |-> is a directory].
Entry(p, d) == [p |-> p, d |-> d]

existsSync(T, p) == \E e \in T : e.p = p
isDirectory(T, p) == \E e \in T : e.p = p /\ e.d
readdirSync(T, dir) == SelectSeq(NameOrder, LAMBDA n : existsSync(T, join(dir, n)))

\* Relative paths of archive entries, up to the depth bound.
RECURSIVE PathsUpTo(_)
PathsUpTo(k) ==
  IF k = 0 THEN {<<>>}
  ELSE LET S == PathsUpTo(k - 1)
       IN S \cup {Append(p, n) : p \in {q \in S : Len(q) = k - 1}, n \in Names}

RelPaths == PathsUpTo(MaxDepth) \ {<<>>}
RelEntries == {Entry(p, d) : p \in RelPaths, d \in BOOLEAN}

RECURSIVE SubsetsUpTo(_, _)
SubsetsUpTo(S, k) ==
  IF k = 0 THEN {{}}
  ELSE LET R == SubsetsUpTo(S, k - 1)
       IN R \cup {r \cup {x} : r \in {q \in R : Cardinality(q) = k - 1}, x \in S}

\* An archive lists every parent directory of an entry, and a path once.
WellFormed(L) ==
  /\ \A e, f \in L : e.p = f.p => e = f
  /\ \A e \in L : Len(e.p) > 1 => Entry(dirname(e.p), TRUE) \in L

Layouts == {L \in SubsetsUpTo(RelEntries, MaxEntries) : WellFormed(L)}

\* ------------------------------------------------------- executable search
RECURSIVE findFfmpegExePath(_, _)
RECURSIVE ScanItems(_, _, _)

ScanItems(T, dir, items) ==
  IF items = <<>> THEN null
  ELSE LET item == Head(items)
           itemPath == join(dir, item)
       IN IF isDirectory(T, itemPath)
          THEN IF item = "bin" /\ existsSync(T, join(itemPath, "ffmpeg.exe"))
               THEN join(itemPath, "ffmpeg.exe")
               ELSE LET exePath == findFfmpegExePath(T, itemPath)
                    IN IF exePath # null THEN exePath
                       ELSE ScanItems(T, dir, Tail(items))
          ELSE IF item = "ffmpeg.exe" THEN itemPath
               ELSE ScanItems(T, dir, Tail(items))

findFfmpegExePath(T, dir) == ScanItems(T, dir, readdirSync(T, dir))

\* ------------------------------------------------------------------ state
VARIABLES
  run,           \* number of the current run of the script
  proc,          \* the process: "running", "exited", "crashed", "killed"
  exitCode,      \* exit code of an ended process, -1 while it runs
  pc,            \* where main() stands: "probe", "confirmWait", "download",
                 \* "extract", "guidance", "exitWait"
  probe,         \* result of checkFfmpeg: "pending", "true", "false"
  stdinPending,  \* input chunks typed by the user and not yet read
  stdinFlowing,  \* process.stdin has been switched to flowing mode
  listener,      \* the once('data') listener on stdin: "none", "confirm", "exit"
  file,          \* the write stream on downloadPath: "none", "opening",
                 \* "open", "closing", "closed"
  req,           \* the HTTP request: "none", "sent", "piping", "undrained",
                 \* "ended", "aborted", "failed"
  status,        \* response.statusCode, 0 before a response
  dl,            \* the promise of downloadFfmpeg: "none", "pending",
                 \* "resolved", "rejected"
  dlErr,         \* the error the promise was rejected with
  unlinkPending, \* fs.unlink(downloadPath) queued and not yet executed
  archive,       \* the file at downloadPath: "absent", "partial", "complete"
  tree,          \* the entries at and under ffmpegDir
  out,           \* the lines printed by this run
  caught,        \* the error caught by main()
  stages,        \* history: the stages this run has entered
  fs0,           \* history: the filesystem when this run started
  foundExePath,  \* main(): the path extractFfmpeg() returned, null before
  envPath,       \* the directories this script has added to the user's PATH
  lastRun        \* history: how the previous run ended: "none", "success",
                 \* "other"

vars == <<run, proc, exitCode, pc, probe, stdinPending, stdinFlowing, listener,
          file, req, status, dl, dlErr, unlinkPending, archive, tree, out,
          caught, stages, fs0, foundExePath, envPath, lastRun>>

ioVars == <<file, req, status, dl, dlErr, unlinkPending>>
stdinVars == <<stdinPending, stdinFlowing, listener>>
fsVars == <<archive, tree>>
auxVars == <<foundExePath, envPath, lastRun>>

\* ----------------------------------------------------------------- errors
NoError == [msg |-> "", code |-> 0]
StatusError(statusCode) == [msg |-> "Failed to download FFmpeg: ", code |-> statusCode]
RequestErr == [msg |-> "request failed", code |-> 0]
MkdirErr == [msg |-> "mkdir failed", code |-> 0]
DecompressErr == [msg |-> "decompress failed", code |-> 0]
UnlinkErr == [msg |-> "unlink failed", code |-> 0]
NotFoundErr == [msg |-> "Could not find ffmpeg.exe in the extracted files", code |-> 0]

\* ----------------------------------------------------------------- output
Line(m) == [m |-> m, p |-> null]
PathLine(m, p) == [m |-> m, p |-> p]

Count(seq, m) == Cardinality({i \in 1..Len(seq) : seq[i].m = m})

\* addToPath without path.dirname: the executable's own path as directory.
addToPath_NoDirname(ffmpegExePath) ==
  << PathLine("FFmpeg installed at:", ffmpegExePath),
     Line("To use FFmpeg system-wide, add this directory to your PATH:"),
     PathLine("binDir", ffmpegExePath),
     Line("You can do this by running the following command"),
     PathLine("setx PATH", ffmpegExePath) >>

\* The lines addToPath prints; the directory in them is the one it returns.
addToPath(ffmpegExePath) ==
  LET ffmpegBinDir == dirname(ffmpegExePath)
  IN << PathLine("FFmpeg installed at:", ffmpegExePath),
        Line("To use FFmpeg system-wide, add this directory to your PATH:"),
        PathLine("binDir", ffmpegBinDir),
        Line("You can do this by running the following command"),
        PathLine("setx PATH", ffmpegBinDir) >>

\* The catch block of main().
MainCatch == << Line("Error setting up FFmpeg:"),
                Line("You can still use the YouTube Downloader") >>

\* The catch block of extractFfmpeg().
ExtractCatch == << Line("Error extracting FFmpeg:") >>

\* main() has settled: the finally callback prints the prompt and listens.
Finally(printed) ==
  /\ out' = out \o printed \o << Line("Press any key to exit...") >>
  /\ pc' = "exitWait"
  /\ listener' = "exit"
  /\ stdinFlowing' = TRUE

\* A promise continuation of main() is queued: it runs before any callback.
MicrotaskPending ==
  \/ pc = "probe" /\ probe # "pending"
  \/ pc = "download" /\ dl \in {"resolved", "rejected"}
  \/ pc = "guidance"

Running == proc = "running"
Idle == Running /\ ~MicrotaskPending

Init ==
  /\ run = 1
  /\ proc = "running"
  /\ exitCode = -1
  /\ pc = "probe"
  /\ probe = "pending"
  /\ stdinPending = 0
  /\ stdinFlowing = FALSE
  /\ listener = "none"
  /\ file = "none"
  /\ req = "none"
  /\ status = 0
  /\ dl = "none"
  /\ dlErr = NoError
  /\ unlinkPending = FALSE
  /\ archive = "absent"
  /\ tree = {}
  /\ out = << >>
  /\ caught = NoError
  /\ stages = {"probe"}
  /\ fs0 = [archive |-> "absent", tree |-> {}]
  /\ foundExePath = null
  /\ envPath = {}
  /\ lastRun = "none"

\* ------------------------------------------------ checkFfmpeg and main()
\* CheckFfmpegCallback rejecting on error: main() catches the failed probe.
CheckFfmpegCallback_Reject(error) ==
  /\ Idle /\ pc = "probe" /\ probe = "pending"
  /\ IF error
     THEN /\ caught' = [msg |-> "ffmpeg -version failed", code |-> 0]
          /\ Finally(<< Line("FFmpeg is not found in your system PATH.") >> \o MainCatch)
          /\ UNCHANGED probe
     ELSE /\ probe' = "true"
          /\ out' = out \o << Line("FFmpeg is already installed in your system!") >>
          /\ UNCHANGED <<pc, listener, stdinFlowing, caught>>
  /\ UNCHANGED <<run, proc, exitCode, stdinPending, ioVars, fsVars, stages, fs0, auxVars>>

\* The callback of exec('ffmpeg -version').
CheckFfmpegCallback(error) ==
  /\ Idle /\ pc = "probe" /\ probe = "pending"
  /\ probe' = IF error THEN "false" ELSE "true"
  /\ out' = out \o << IF error THEN Line("FFmpeg is not found in your system PATH.")
                      ELSE Line("FFmpeg is already installed in your system!") >>
  /\ UNCHANGED <<run, proc, exitCode, pc, stdinVars, ioVars, fsVars, caught, stages, fs0, auxVars>>

CheckFfmpeg == \E error \in BOOLEAN : CheckFfmpegCallback(error)

\* isInstalled: main() returns at once.
MainAlreadyInstalled ==
  /\ Running /\ pc = "probe" /\ probe = "true"
  /\ Finally(<< Line("FFmpeg is already installed on your system. No need to download."),
                Line("You can use the YouTube Downloader with full video quality features.") >>)
  /\ UNCHANGED <<run, proc, exitCode, probe, stdinPending, ioVars, fsVars, caught, stages, fs0, auxVars>>

\* downloadFfmpeg() up to the return of the promise.
StartDownload ==
  /\ out' = out \o << Line("Downloading FFmpeg...") >>
  /\ file' = "opening"
  /\ req' = "sent"
  /\ dl' = "pending"
  /\ pc' = "download"
  /\ stages' = stages \cup {"download"}

LocalExe == join(join(ffmpegDir, "bin"), "ffmpeg.exe")

\* MainLocalFound without its return: guidance, then the prompt.
MainLocalFound_NoReturn ==
  /\ Running /\ pc = "probe" /\ probe = "false"
  /\ existsSync(tree, LocalExe)
  /\ out' = out \o << Line("Local FFmpeg installation found.") >> \o addToPath(LocalExe)
                \o << Line("Would you like to download and install FFmpeg?"),
                      Line("Press Enter to continue or Ctrl+C to cancel...") >>
  /\ pc' = "confirmWait"
  /\ listener' = "confirm"
  /\ stdinFlowing' = TRUE
  /\ stages' = stages \cup {"cache", "guidance", "confirm"}
  /\ UNCHANGED <<run, proc, exitCode, probe, stdinPending, ioVars, fsVars, caught, fs0, auxVars>>

\* The local installation exists: guidance, then main() returns.
MainLocalFound ==
  /\ Running /\ pc = "probe" /\ probe = "false"
  /\ existsSync(tree, LocalExe)
  /\ Finally(<< Line("Local FFmpeg installation found.") >> \o addToPath(LocalExe))
  /\ stages' = stages \cup {"cache", "guidance"}
  /\ UNCHANGED <<run, proc, exitCode, probe, stdinPending, ioVars, fsVars, caught, fs0, auxVars>>

\* MainPrompt without the await: the download starts with the prompt.
MainPrompt_NoGate ==
  /\ Running /\ pc = "probe" /\ probe = "false"
  /\ ~existsSync(tree, LocalExe)
  /\ out' = out \o << Line("Would you like to download and install FFmpeg?"),
                      Line("Press Enter to continue or Ctrl+C to cancel..."),
                      Line("Downloading FFmpeg...") >>
  /\ file' = "opening"
  /\ req' = "sent"
  /\ dl' = "pending"
  /\ pc' = "download"
  /\ stages' = stages \cup {"cache", "confirm", "download"}
  /\ UNCHANGED <<run, proc, exitCode, probe, stdinVars, status, dlErr,
                 unlinkPending, fsVars, caught, fs0, auxVars>>

\* No local installation: prompt and wait for one 'data' event.
MainPrompt ==
  /\ Running /\ pc = "probe" /\ probe = "false"
  /\ ~existsSync(tree, LocalExe)
  /\ out' = out \o << Line("Would you like to download and install FFmpeg?"),
                      Line("Press Enter to continue or Ctrl+C to cancel...") >>
  /\ pc' = "confirmWait"
  /\ listener' = "confirm"
  /\ stdinFlowing' = TRUE
  /\ stages' = stages \cup {"cache", "confirm"}
  /\ UNCHANGED <<run, proc, exitCode, probe, stdinPending, ioVars, fsVars, caught, fs0, auxVars>>

\* ------------------------------------------------------------------ stdin
\* The user types a line (or a key); it waits in the terminal until read.
UserInput ==
  /\ Running
  /\ stdinPending < MaxPending
  /\ stdinPending' = stdinPending + 1
  /\ UNCHANGED <<run, proc, exitCode, pc, probe, stdinFlowing, listener, ioVars,
                 fsVars, out, caught, stages, fs0, auxVars>>

\* A chunk is read from the flowing stdin: the 'data' event.
DataEvent == Idle /\ stdinFlowing /\ stdinPending > 0

\* The 'data' event resolves the confirmation promise; main() calls
\* downloadFfmpeg().
ConfirmReceived ==
  /\ DataEvent /\ listener = "confirm"
  /\ stdinPending' = stdinPending - 1
  /\ listener' = "none"
  /\ StartDownload
  /\ UNCHANGED <<run, proc, exitCode, probe, stdinFlowing, status, dlErr,
                 unlinkPending, fsVars, caught, fs0, auxVars>>

\* The process has ended: its handles, requests and queued work are gone.
EndProcess(how, code) ==
  /\ proc' = how
  /\ exitCode' = code
  /\ listener' = "none"
  /\ file' = "none"
  /\ req' = "none"
  /\ unlinkPending' = FALSE

\* ExitReceived without the wait: the process exits with the prompt.
ExitReceived_NoInput ==
  /\ Idle /\ listener = "exit"
  /\ EndProcess("exited", 0)
  /\ UNCHANGED <<run, pc, probe, stdinPending, stdinFlowing, status, dl, dlErr,
                 fsVars, out, caught, stages, fs0, auxVars>>

\* The 'data' event of the exit pause: process.exit(0).
ExitReceived ==
  /\ DataEvent /\ listener = "exit"
  /\ stdinPending' = stdinPending - 1
  /\ EndProcess("exited", 0)
  /\ UNCHANGED <<run, pc, probe, stdinFlowing, status, dl, dlErr, fsVars, out,
                 caught, stages, fs0, auxVars>>

\* A 'data' event with no listener attached: the chunk is discarded.
DataDropped ==
  /\ DataEvent /\ listener = "none"
  /\ stdinPending' = stdinPending - 1
  /\ UNCHANGED <<run, proc, exitCode, pc, probe, stdinFlowing, listener, ioVars,
                 fsVars, out, caught, stages, fs0, auxVars>>

\* An 'error' event on a stream without an 'error' listener is thrown from
\* the event loop: uncaught exception, the process dies with code 1.
UncaughtException ==
  /\ EndProcess("crashed", 1)
  /\ UNCHANGED <<run, pc, probe, stdinPending, stdinFlowing, status, dl, dlErr,
                 out, caught, stages, fs0, auxVars>>

\* --------------------------------------------------------- downloadFfmpeg
\* fs.createWriteStream: the thread pool opens (creates, truncates) the file.
FileOpened ==
  /\ Running /\ file = "opening"
  /\ file' = "open"
  /\ archive' = "partial"
  /\ UNCHANGED <<run, proc, exitCode, pc, probe, stdinVars, req, status, dl,
                 dlErr, unlinkPending, tree, out, caught, stages, fs0, auxVars>>

\* The open fails: 'error' on the write stream, which has no listener.
FileOpenFailed ==
  /\ Idle /\ file = "opening"
  /\ UncaughtException
  /\ UNCHANGED fsVars

\* A write of piped data fails: 'error' on the write stream.
FileWriteFailed ==
  /\ Idle /\ file = "open" /\ req \in {"piping", "ended"}
  /\ UncaughtException
  /\ UNCHANGED fsVars

\* The response callback of https.get.
Response(statusCode) ==
  /\ Idle /\ req = "sent"
  /\ status' = statusCode
  /\ IF statusCode # 200
     THEN /\ dl' = "rejected"
          /\ dlErr' = StatusError(statusCode)
          /\ req' = "undrained"
     ELSE /\ req' = "piping"
          /\ UNCHANGED <<dl, dlErr>>
  /\ UNCHANGED <<run, proc, exitCode, pc, probe, stdinVars, file, unlinkPending,
                 fsVars, out, caught, stages, fs0, auxVars>>

HttpResponse == \E statusCode \in StatusCodes : Response(statusCode)

\* The 'error' handler of the request: queue the unlink, reject.
RequestError ==
  /\ Idle /\ req \in {"sent", "piping", "undrained"}
  /\ unlinkPending' = TRUE
  /\ req' = "failed"
  /\ IF dl = "pending"
     THEN dl' = "rejected" /\ dlErr' = RequestErr
     ELSE UNCHANGED <<dl, dlErr>>
  /\ UNCHANGED <<run, proc, exitCode, pc, probe, stdinVars, file, status, fsVars,
                 out, caught, stages, fs0, auxVars>>

\* The connection closes in the middle of the body: the response is
\* destroyed ('aborted'); nothing listens, and pipe() does not end the file.
ResponseAborted ==
  /\ Idle /\ req = "piping"
  /\ req' = "aborted"
  /\ UNCHANGED <<run, proc, exitCode, pc, probe, stdinVars, file, status, dl,
                 dlErr, unlinkPending, fsVars, out, caught, stages, fs0, auxVars>>

\* 'end' of the response: pipe() calls file.end().
ResponseEnd ==
  /\ Idle /\ req = "piping"
  /\ req' = "ended"
  /\ UNCHANGED <<run, proc, exitCode, pc, probe, stdinVars, file, status, dl,
                 dlErr, unlinkPending, fsVars, out, caught, stages, fs0, auxVars>>

\* What the 'finish' handler leaves of the write stream: file.close() only
\* queues the close.
FinishHandle == "closing"

\* 'finish' of the write stream: file.close(), message, resolve().
FileFinish ==
  /\ Idle /\ req = "ended" /\ file = "open" /\ dl = "pending"
  /\ archive' = IF archive = "absent" THEN "absent" ELSE "complete"
  /\ file' = FinishHandle
  /\ out' = out \o << Line("Download complete!") >>
  /\ dl' = "resolved"
  /\ UNCHANGED <<run, proc, exitCode, pc, probe, stdinVars, req, status, dlErr,
                 unlinkPending, tree, caught, stages, fs0, auxVars>>

\* The thread pool closes the descriptor.
FileClosed ==
  /\ Running /\ file = "closing"
  /\ file' = "closed"
  /\ UNCHANGED <<run, proc, exitCode, pc, probe, stdinVars, req, status, dl,
                 dlErr, unlinkPending, fsVars, out, caught, stages, fs0, auxVars>>

\* The thread pool executes the queued unlink; its outcome is ignored.
UnlinkExecuted(ok) ==
  /\ Running /\ unlinkPending
  /\ unlinkPending' = FALSE
  /\ archive' = IF ok THEN "absent" ELSE archive
  /\ UNCHANGED <<run, proc, exitCode, pc, probe, stdinVars, file, req, status,
                 dl, dlErr, tree, out, caught, stages, fs0, auxVars>>

Unlink == \E ok \in BOOLEAN : UnlinkExecuted(ok)

\* ---------------------------------------------------------- extractFfmpeg
\* The entries of an archive at their place under the install root.
Place(L) == {Entry(ffmpegDir \o e.p, e.d) : e \in L}

\* decompress cannot write a file over a directory or the reverse.
Conflict(T, e) == \E f \in T : f.p = e.p /\ f.d # e.d
Blocked(T, L, e) == \E f \in Place(L) : IsPrefix(f.p, e.p) /\ Conflict(T, f)
Written(T, L) == {e \in Place(L) : ~Blocked(T, L, e)}

\* The download failed: the catch block of main(), then the exit pause.
MainDownloadRejected ==
  /\ Running /\ pc = "download" /\ dl = "rejected"
  /\ caught' = dlErr
  /\ Finally(MainCatch)
  /\ UNCHANGED <<run, proc, exitCode, probe, stdinPending, ioVars, fsVars, stages, fs0, auxVars>>

\* The download succeeded: extractFfmpeg() up to the call of decompress.
MainExtractStart ==
  /\ Running /\ pc = "download" /\ dl = "resolved"
  /\ out' = out \o << Line("Extracting FFmpeg...") >>
  /\ tree' = IF existsSync(tree, ffmpegDir) THEN tree
             ELSE tree \cup {Entry(ffmpegDir, TRUE)}
  /\ pc' = "extract"
  /\ stages' = stages \cup {"extract"}
  /\ UNCHANGED <<run, proc, exitCode, probe, stdinVars, ioVars, archive, caught, fs0, auxVars>>

\* mkdirSync throws: both catch blocks, then the exit pause.
MainMkdirFailed ==
  /\ Running /\ pc = "download" /\ dl = "resolved"
  /\ ~existsSync(tree, ffmpegDir)
  /\ caught' = MkdirErr
  /\ stages' = stages \cup {"extract"}
  /\ Finally(<< Line("Extracting FFmpeg...") >> \o ExtractCatch \o MainCatch)
  /\ UNCHANGED <<run, proc, exitCode, probe, stdinPending, ioVars, fsVars, fs0, auxVars>>

\* decompress rejects (corrupt archive, write failure, conflicting entry)
\* after writing the entries of L that it could write.
DecompressRejected(L) ==
  /\ Idle /\ pc = "extract"
  /\ tree' = tree \cup Written(tree, L)
  /\ caught' = DecompressErr
  /\ Finally(ExtractCatch \o MainCatch)
  /\ UNCHANGED <<run, proc, exitCode, probe, stdinPending, ioVars, archive, stages, fs0, auxVars>>

\* AfterDecompress with the search evaluated before the archive is removed.
AfterDecompress_SearchFirst(T, unlinkOk) ==
  LET ffmpegExePath == findFfmpegExePath(T, ffmpegDir)
  IN IF ffmpegExePath = null
     THEN [printed |-> << Line("Extraction complete!") >> \o ExtractCatch,
           archive |-> "complete", searched |-> TRUE,
           exe |-> null, err |-> NotFoundErr]
     ELSE IF ~unlinkOk
     THEN [printed |-> << Line("Extraction complete!") >> \o ExtractCatch,
           archive |-> "complete", searched |-> TRUE,
           exe |-> null, err |-> UnlinkErr]
     ELSE [printed |-> << Line("Extraction complete!"),
                          Line("Cleaned up temporary files.") >>,
           archive |-> "absent", searched |-> TRUE,
           exe |-> ffmpegExePath, err |-> NoError]

\* extractFfmpeg() after decompress has resolved: what it prints, whether
\* the search ran, the path it returns or the error it throws, and what is
\* left at downloadPath.
AfterDecompress(T, unlinkOk) ==
  LET ffmpegExePath == findFfmpegExePath(T, ffmpegDir)
  IN IF ~unlinkOk
     THEN [printed |-> << Line("Extraction complete!") >> \o ExtractCatch,
           archive |-> "complete", searched |-> FALSE,
           exe |-> null, err |-> UnlinkErr]
     ELSE IF ffmpegExePath # null
     THEN [printed |-> << Line("Extraction complete!"),
                          Line("Cleaned up temporary files.") >>,
           archive |-> "absent", searched |-> TRUE,
           exe |-> ffmpegExePath, err |-> NoError]
     ELSE [printed |-> << Line("Extraction complete!"),
                          Line("Cleaned up temporary files.") >> \o ExtractCatch,
           archive |-> "absent", searched |-> TRUE,
           exe |-> null, err |-> NotFoundErr]

\* AfterExtract with the completion message after the try statement.
AfterExtract_Fallthrough(r) ==
  (IF r.err = NoError THEN addToPath(r.exe) ELSE MainCatch)
    \o << Line("Setup complete!") >>

\* main() after extractFfmpeg() has settled with r.
AfterExtract(r) ==
  IF r.err = NoError
  THEN addToPath(r.exe) \o << Line("Setup complete!") >>
  ELSE MainCatch

\* decompress resolves with the entries of L extracted; unlinkSync succeeds
\* or throws; the search.  extractFfmpeg() returns the path to main(), or
\* throws into the catch blocks and the exit pause.
DecompressResolved(L, unlinkOk) ==
  /\ Idle /\ pc = "extract"
  /\ archive = "complete"
  /\ \A e \in Place(L) : ~Conflict(tree, e)
  /\ LET T == tree \cup Place(L)
         r == AfterDecompress(T, unlinkOk)
     IN /\ tree' = T
        /\ archive' = r.archive
        /\ caught' = r.err
        /\ foundExePath' = r.exe
        /\ stages' = stages \cup (IF r.searched THEN {"search"} ELSE {})
        /\ IF r.err = NoError
           THEN /\ out' = out \o r.printed
                /\ pc' = "guidance"
                /\ UNCHANGED <<listener, stdinFlowing>>
           ELSE Finally(r.printed \o AfterExtract(r))
  /\ UNCHANGED <<run, proc, exitCode, probe, stdinPending, ioVars, fs0, envPath, lastRun>>

\* main() with the path extractFfmpeg() returned: addToPath, the completion
\* message, then the exit pause.
MainGuidance ==
  /\ Running /\ pc = "guidance"
  /\ stages' = stages \cup {"guidance"}
  /\ Finally(AfterExtract([err |-> NoError, exe |-> foundExePath]))
  /\ UNCHANGED <<run, proc, exitCode, probe, stdinPending, ioVars, fsVars, caught,
                 fs0, auxVars>>

Decompress ==
  \E L \in Layouts :
     \/ DecompressRejected(L)
     \/ \E unlinkOk \in BOOLEAN : DecompressResolved(L, unlinkOk)

\* ------------------------------------------------------------ environment
\* Ctrl+C, or the terminal is closed.
Terminate ==
  /\ Running
  /\ EndProcess("killed", 130)
  /\ UNCHANGED <<run, pc, probe, stdinPending, stdinFlowing, status, dl, dlErr,
                 fsVars, out, caught, stages, fs0, auxVars>>

\* The user runs the script again, on the filesystem the last run left.
Restart ==
  /\ ~Running
  /\ run < MaxRuns
  /\ run' = run + 1
  /\ proc' = "running"
  /\ exitCode' = -1
  /\ pc' = "probe"
  /\ probe' = "pending"
  /\ stdinPending' = 0
  /\ stdinFlowing' = FALSE
  /\ listener' = "none"
  /\ file' = "none"
  /\ req' = "none"
  /\ status' = 0
  /\ dl' = "none"
  /\ dlErr' = NoError
  /\ unlinkPending' = FALSE
  /\ out' = << >>
  /\ caught' = NoError
  /\ stages' = {"probe"}
  /\ fs0' = [archive |-> archive, tree |-> tree]
  /\ foundExePath' = null
  /\ lastRun' = IF /\ pc = "exitWait" /\ "download" \in stages
                   /\ caught = NoError
                   /\ Count(out, "Setup complete!") = 1
                THEN "success" ELSE "other"
  /\ UNCHANGED <<fsVars, envPath>>

Next ==
  \/ CheckFfmpeg
  \/ MainAlreadyInstalled
  \/ MainLocalFound
  \/ MainPrompt
  \/ UserInput
  \/ ConfirmReceived
  \/ ExitReceived
  \/ DataDropped
  \/ FileOpened
  \/ FileOpenFailed
  \/ FileWriteFailed
  \/ HttpResponse
  \/ RequestError
  \/ ResponseAborted
  \/ ResponseEnd
  \/ FileFinish
  \/ FileClosed
  \/ Unlink
  \/ MainDownloadRejected
  \/ MainExtractStart
  \/ MainMkdirFailed
  \/ Decompress
  \/ MainGuidance
  \/ Terminate
  \/ Restart

Spec == Init /\ [][Next]_vars

\* The code of the process always gets to run, pending I/O completes and
\* the user supplies input; nothing obliges the environment to fail, to
\* kill the process or to run the script again.
FairSpec ==
  /\ Spec
  /\ WF_vars(CheckFfmpeg)
  /\ WF_vars(MainAlreadyInstalled)
  /\ WF_vars(MainLocalFound)
  /\ WF_vars(MainPrompt)
  /\ WF_vars(UserInput)
  /\ WF_vars(ConfirmReceived)
  /\ WF_vars(ExitReceived)
  /\ WF_vars(DataDropped)
  /\ WF_vars(FileOpened)
  /\ WF_vars(HttpResponse)
  /\ WF_vars(ResponseEnd)
  /\ WF_vars(FileFinish)
  /\ WF_vars(FileClosed)
  /\ WF_vars(Unlink)
  /\ WF_vars(MainDownloadRejected)
  /\ WF_vars(MainExtractStart)
  /\ WF_vars(Decompress)
  /\ WF_vars(MainGuidance)

TypeOK ==
  /\ run \in 1..MaxRuns
  /\ proc \in {"running", "exited", "crashed", "killed"}
  /\ pc \in {"probe", "confirmWait", "download", "extract", "guidance", "exitWait"}
  /\ probe \in {"pending", "true", "false"}
  /\ stdinPending \in 0..MaxPending
  /\ file \in {"none", "opening", "open", "closing", "closed"}
  /\ req \in {"none", "sent", "piping", "undrained", "ended", "aborted", "failed"}
  /\ dl \in {"none", "pending", "resolved", "rejected"}
  /\ archive \in {"absent", "partial", "complete"}
  /\ lastRun \in {"none", "success", "other"}

\* ----------------------------------------------------------- abbreviations
Warnings == Count(out, "You can still use the YouTube Downloader")
Guidances == Count(out, "FFmpeg installed at:")
Completions == Count(out, "Setup complete!")
ExitPrompts == Count(out, "Press any key to exit...")

\* The caller of downloadFfmpeg has seen it fail.
DownloadFailureObserved == Running /\ pc = "exitWait" /\ dl = "rejected"

\* unlinkSync threw: extraction was announced complete, the cleanup was not.
UnlinkSyncFailed ==
  /\ Count(out, "Extraction complete!") = 1
  /\ Count(out, "Cleaned up temporary files.") = 0

\* ------------------------------------------------------------------- C1
\* C1: every run of main() that is not killed from outside eventually
\* reaches the final 'Press any key to exit' prompt, whatever the outcome
\* of the download, the extraction and the search.
C1_EveryRunReachesExitPrompt ==
  (Running /\ pc = "probe") ~> (pc = "exitWait" \/ proc = "killed")

\* ------------------------------------------------------------------- C2
\* C2: once downloadFfmpeg has failed on a status code other than 200, the
\* error carries that status code and no file exists at downloadPath.
C2_Non200DeletesDestination ==
  (DownloadFailureObserved /\ status # 0 /\ status # 200 /\ req = "undrained")
    => (caught = StatusError(status) /\ archive = "absent")

\* ------------------------------------------------------------------- C3
\* C3: when the caller observes the rejection caused by a request error,
\* the unlink of downloadPath has already been carried out.
C3_UnlinkBeforeRejectionObserved ==
  (DownloadFailureObserved /\ caught = RequestErr) => ~unlinkPending

\* ------------------------------------------------------------------- C4
\* C4: the download promise is resolved, and extraction runs, only with
\* the write handle on the archive closed.
C4_ResolvedOnlyAfterClose ==
  (Running /\ (dl = "resolved" \/ pc = "extract")) => file = "closed"

\* ------------------------------------------------------------------- C5
\* C5: after downloadFfmpeg has returned control with an error, no write
\* handle on downloadPath is open.
C5_ErrorPathClosesHandle ==
  DownloadFailureObserved => file = "closed"

\* ------------------------------------------------------------------- C6
\* C6: until the confirmation gate is passed the run has created no file,
\* sent no request and left the filesystem as it found it, also when the
\* process is killed while waiting; and the download starts only in the
\* step that consumes one input event while main() waits at the gate.
C6_NoWorkBeforeGate ==
  /\ []("download" \notin stages =>
          /\ archive = fs0.archive
          /\ tree = fs0.tree
          /\ file = "none" /\ req = "none" /\ dl = "none" /\ ~unlinkPending)
  /\ [][("download" \notin stages /\ "download" \in stages') =>
          /\ pc = "confirmWait" /\ listener = "confirm"
          /\ probe = "false" /\ ~existsSync(tree, LocalExe)
          /\ Count(out, "Press Enter to continue or Ctrl+C to cancel...") = 1
          /\ stdinPending > 0 /\ stdinPending' = stdinPending - 1]_vars

\* Killed while waiting at the gate, in a run that found an install root.
C6_Witness ==
  proc = "killed" /\ pc = "confirmWait" /\ tree # {} /\ archive # "absent"

\* ------------------------------------------------------------------- C7
\* C7: a positive availability probe is followed by nothing but the exit
\* prompt; a negative probe with a file at <install-root>/bin/ffmpeg.exe
\* is followed by guidance once, for that path, and the exit prompt, with
\* no confirmation wait, download or extraction.
C7_ShortCircuit ==
  /\ probe = "true" =>
       /\ pc \in {"probe", "exitWait"}
       /\ stages = {"probe"}
       /\ Guidances = 0 /\ Warnings = 0
       /\ file = "none" /\ req = "none" /\ dl = "none"
       /\ archive = fs0.archive /\ tree = fs0.tree
  /\ (probe = "false" /\ Entry(LocalExe, FALSE) \in fs0.tree /\ pc # "probe") =>
       /\ pc = "exitWait"
       /\ stages = {"probe", "cache", "guidance"}
       /\ Guidances = 1
       /\ \A i \in 1..Len(out) :
            out[i].m = "FFmpeg installed at:" => out[i].p = LocalExe
       /\ Count(out, "Press Enter to continue or Ctrl+C to cancel...") = 0
       /\ file = "none" /\ req = "none" /\ dl = "none"
       /\ archive = fs0.archive /\ tree = fs0.tree
  /\ (pc = "exitWait" /\ "confirm" \notin stages) =>
       /\ ExitPrompts = 1
       /\ out[Len(out)] = Line("Press any key to exit...")

\* The cache-hit path has been taken.
C7_Witness ==
  /\ pc = "exitWait" /\ probe = "false"
  /\ Entry(LocalExe, FALSE) \in fs0.tree
  /\ "guidance" \in stages

\* ------------------------------------------------------------------- C8
\* C8: whenever the search has been evaluated the archive is absent, found
\* or not; and no step removes an entry at or under the install root.
C8_ArchiveRemovedBeforeSearch ==
  /\ []("search" \in stages => archive = "absent")
  /\ [](caught = NotFoundErr =>
          /\ "search" \in stages
          /\ Entry(ffmpegDir, TRUE) \in tree
          /\ fs0.tree \subseteq tree)
  /\ [][tree \subseteq tree']_vars

\* The search failed on a tree that extraction has filled.
C8_Witness ==
  /\ caught = NotFoundErr /\ archive = "absent"
  /\ Cardinality(tree) > 1 /\ fs0.tree = {}

\* ------------------------------------------------------------------- C9
\* C9: when unlinkSync fails after a successful extraction the search is
\* still performed, and if the executable is there the run ends with
\* guidance and 'Setup complete', without the warning.
C9_UnlinkFailureNotFatal ==
  (pc = "exitWait" /\ UnlinkSyncFailed) =>
     /\ "search" \in stages
     /\ findFfmpegExePath(tree, ffmpegDir) # null =>
          (Guidances = 1 /\ Completions = 1 /\ Warnings = 0)

HasExeFile(T) ==
  \E e \in T : /\ ~e.d
               /\ Len(e.p) > Len(ffmpegDir) /\ IsPrefix(ffmpegDir, e.p)
               /\ e.p[Len(e.p)] = "ffmpeg.exe"

\* C12: the search returns a path exactly when the tree holds a file named
\* ffmpeg.exe at some depth, and null, without raising, when it holds none.
C12_SearchExhaustive ==
  "search" \in stages =>
     /\ (foundExePath # null) <=> HasExeFile(tree)
     /\ caught \in {NoError, NotFoundErr}

\* ------------------------------------------------------------------ C13
\* The five lines of the guidance stage, whichever path reaches it.
GuidanceMessages ==
  << "FFmpeg installed at:",
     "To use FFmpeg system-wide, add this directory to your PATH:",
     "binDir",
     "You can do this by running the following command",
     "setx PATH" >>

\* dir is the directory that contains the path exe.
Contains(dir, exe) == exe # << >> /\ Append(dir, exe[Len(exe)]) = exe

C14_ProbeNeverRaises ==
  /\ probe \in {"pending", "true", "false"}
  /\ pc # "probe" => probe # "pending"
  /\ probe = "false" <=> Count(out, "FFmpeg is not found in your system PATH.") = 1
  /\ probe = "true" <=> Count(out, "FFmpeg is already installed in your system!") = 1
  /\ Count(out, "FFmpeg is not found in your system PATH.")
       + Count(out, "FFmpeg is already installed in your system!") <= 1
  /\ "download" \notin stages => (caught = NoError /\ Warnings = 0)
  /\ proc = "crashed" => "download" \in stages

\* A negative probe has led main() to the confirmation prompt.
C14_Witness ==
  /\ probe = "false" /\ pc = "confirmWait" /\ Running
  /\ Warnings = 0

\* ------------------------------------------------------------------ C15
\* C15: after a run that ended a fresh install in the success branch, the
\* next run with a negative availability probe takes the cache-hit path:
\* guidance, no confirmation wait, no download.
C15_CacheRecognisesInstall ==
  (lastRun = "success" /\ tree = fs0.tree /\ probe = "false" /\ pc # "probe") =>
     /\ "guidance" \in stages
     /\ "confirm" \notin stages
     /\ "download" \notin stages

\* ------------------------------------------------------------------ C16
\* C16: when a run that entered the fetch stage reaches the exit prompt,
\* no file exists at downloadPath.
C16_ArchiveGoneAtExitPrompt ==
  [][(pc # "exitWait" /\ pc' = "exitWait" /\ "download" \in stages')
        => archive' = "absent"]_vars

\* ------------------------------------------------------------------ C17
\* C17: a path returned by the search lies under the install root, ends in
\* ffmpeg.exe and names a regular file of the tree.
C17_ReturnedPathIsFile ==
  foundExePath # null =>
     /\ Len(foundExePath) > Len(ffmpegDir)
     /\ IsPrefix(ffmpegDir, foundExePath)
     /\ foundExePath[Len(foundExePath)] = "ffmpeg.exe"
     /\ Entry(foundExePath, FALSE) \in tree

====
